---- MODULE Spec2Model ----
(***************************************************************************)
(* Event extraction (parseEvent) and dictionary-key derivation             *)
(* (getDictionaryKeyHash) of the CEP47/ERC20 client helpers.               *)
(*                                                                         *)
(* Strings the code only compares are TLA+ strings.  A storage key is a    *)
(* record [head, body]: head is the leading token that startsWith looks    *)
(* at, body the digest rendered after it.  A formatted URef is a record    *)
(* [prefix, addr, rights].  A hex byte string of a WriteCLValue is a       *)
(* record describing what the casper-js-sdk decoder produces for it.       *)
(* A JavaScript exception leaving a function is a result of kind "throw".  *)
(***************************************************************************)
EXTENDS Integers, Sequences, FiniteSets, TLC

VARIABLES subscription, value, pc, result

vars == <<subscription, value, pc, result>>

(***************************************************************************)
(* Bounds of the model.                                                    *)
(***************************************************************************)
MaxTransforms == 2

(***************************************************************************)
(* constants.ts: the CEP47Events enum.                                     *)
(***************************************************************************)
CEP47Events == {"cep47_mint_one", "cep47_transfer_token", "cep47_burn_one",
                "cep47_metadata_update"}

(***************************************************************************)
(* JavaScript null / string values of the result's error field.            *)
(***************************************************************************)
NullValue == [isNull |-> TRUE, str |-> ""]
StringValue(s) == [isNull |-> FALSE, str |-> s]

(***************************************************************************)
(* getDictionaryKeyHash, lines 223-232.                                    *)
(***************************************************************************)
AccessRights == {"000", "001", "002", "003", "004", "005", "006", "007"}

\* CLURef.fromFormattedStr (line 224): throws unless the string is
\* "uref-<addr>-<access rights>".
fromFormattedStr(uref) ==
  IF uref.prefix = "uref-" /\ uref.rights \in AccessRights
  THEN [ok |-> TRUE, data |-> uref.addr]
  ELSE [ok |-> FALSE, data |-> <<>>]

\* Buffer.from(id) (line 226): the UTF-8 bytes of the event id.
Utf8Table == [s \in {"42", "7"} |-> IF s = "42" THEN <<52, 50>> ELSE <<55>>]
BufferFrom(id) == Utf8Table[id]

\* concat([a, b]) (line 227).
concat(a, b) == a \o b

\* blake.blake2b(input, undefined, 32) (line 228): an ideal hash, two
\* digests are equal exactly when their inputs are.
blake2b(input) == [alg |-> "blake2b-256", of |-> input]

\* `dictionary-${str}` (lines 229-231).
DictionaryKey(blaked) == [head |-> "dictionary", body |-> blaked]

getDictionaryKeyHash(uref, id) ==
  LET eventsUref == fromFormattedStr(uref) IN
  IF ~eventsUref.ok
  THEN [ok |-> FALSE, key |-> DictionaryKey(blake2b(<<>>))]
  ELSE LET eventsUrefBytes == eventsUref.data
           idNum == BufferFrom(id)
           finalBytes == concat(eventsUrefBytes, idNum)
           blaked == blake2b(finalBytes)
       IN [ok |-> TRUE, key |-> DictionaryKey(blaked)]

(***************************************************************************)
(* The casper-js-sdk decoder as parseEvent uses it, lines 151-160.         *)
(***************************************************************************)
\* CLValueParsers.fromBytesWithType(Buffer.from(bytes, "hex")) (lines
\* 151-152): a Result, Err when the bytes are no typed value.
fromBytesWithType(bytes) ==
  IF bytes.decodes = "error"
  THEN [ok |-> FALSE, clType |-> "error", some |-> FALSE, inner |-> "none",
        map |-> bytes.map]
  ELSE [ok |-> TRUE, clType |-> bytes.decodes, some |-> bytes.some,
        inner |-> bytes.inner, map |-> bytes.map]

\* clValue.get(CLValueBuilder.string(field)) (lines 156-160): the entry, or
\* undefined when the map has none.
MapHas(map, field) == field \in DOMAIN map
MapGet(map, field) == map[field]

\* Array.prototype.includes (line 168).
includes(arr, x) == \E i \in 1..Len(arr) : arr[i] = x

\* String.prototype.startsWith (line 147).
startsWith(key, prefix) == key.head = prefix

(***************************************************************************)
(* parseEvent, lines 128-179.                                              *)
(***************************************************************************)
Continue(acc) == [thrown |-> FALSE, exception |-> "", acc |-> acc]
Throw(exception, acc) == [thrown |-> TRUE, exception |-> exception, acc |-> acc]

\* Line 170: acc = [...acc, {name: event.value(), clValue}].
Push_Prepend(acc, name, clValue) ==
  <<[name |-> name, clValue |-> clValue]>> \o acc
Push_Dedup(acc, name, clValue) ==
  IF \E i \in 1..Len(acc) : acc[i] = [name |-> name, clValue |-> clValue]
  THEN acc
  ELSE Append(acc, [name |-> name, clValue |-> clValue])
Push(acc, name, clValue) == Append(acc, [name |-> name, clValue |-> clValue])

\* Lines 163-164: getDictionaryKeyHash(eventsURef, id.value()) === val.key.
KeyMatches_HeadOnly(derivedKey, key) == derivedKey.head = key.head
KeyMatches(derivedKey, key) == derivedKey = key

\* Lines 165-166: hash && hash.value() === contractPackageHash.
HashMatches_PresentOnly(clValue, contractPackageHash) ==
  MapHas(clValue, "contract_package_hash")
HashMatches(clValue, contractPackageHash) ==
  /\ MapHas(clValue, "contract_package_hash")
  /\ MapGet(clValue, "contract_package_hash") = contractPackageHash

\* Lines 167-168: event && eventNames.includes(event.value()).
EventMatches(clValue, eventNames) ==
  /\ MapHas(clValue, "event_type")
  /\ includes(eventNames, MapGet(clValue, "event_type"))

\* Line 163: an exception of getDictionaryKeyHash is not caught, it leaves
\* the callback.
DeriveFailed_Swallowed(acc) == Continue(acc)
DeriveFailed(acc) == Throw("InvalidReferenceFormat", acc)

\* Lines 161-171: the verification of a decoded map.
VerifyAndPush(sub, acc, val, clValue) ==
  IF ~MapHas(clValue, "event_id")
  THEN Continue(acc)
  ELSE LET derived == getDictionaryKeyHash(sub.eventsURef,
                                           MapGet(clValue, "event_id")) IN
       IF ~derived.ok
       THEN DeriveFailed(acc)
       ELSE IF /\ KeyMatches(derived.key, val.key)
               /\ HashMatches(clValue, sub.contractPackageHash)
               /\ EventMatches(clValue, sub.eventNames)
            THEN Continue(Push(acc, MapGet(clValue, "event_type"), clValue))
            ELSE Continue(acc)

\* Lines 151-172: the decoding of a candidate.  unwrap() of an Err throws
\* (line 153); the value of a decoded List is an array, whose `some` is a
\* function and which has no unwrap (line 154); a value without `some`, an
\* empty Option and an inner value that is no CLMap leave acc as it is.
DecodeCandidate(sub, acc, val) ==
  LET maybeCLOption == fromBytesWithType(val.transform.bytes) IN
  IF ~maybeCLOption.ok
  THEN Throw("UnwrapOnErr", acc)
  ELSE IF maybeCLOption.clType = "List"
  THEN Throw("TypeError", acc)
  ELSE IF maybeCLOption.clType = "Option" /\ maybeCLOption.some
          /\ maybeCLOption.inner = "Map"
  THEN VerifyAndPush(sub, acc, val, maybeCLOption.map)
  ELSE Continue(acc)

\* Lines 146-150: the candidate test.
IsCandidate_AnyParsed(val) ==
  /\ startsWith(val.key, "dictionary")
  /\ val.transform.tag = "WriteCLValue"
IsCandidate(val) ==
  /\ startsWith(val.key, "dictionary")
  /\ val.transform.tag = "WriteCLValue"
  /\ val.transform.parsed = "null"

\* Lines 145-175: the reduce callback.
Callback(sub, acc, val) ==
  IF IsCandidate(val) THEN DecodeCandidate(sub, acc, val) ELSE Continue(acc)

\* Lines 145-175: transforms.reduce(callback, []); an exception thrown by
\* the callback ends the reduction.
RECURSIVE reduce(_, _, _, _)
reduce(sub, transforms, i, acc) ==
  IF i > Len(transforms)
  THEN Continue(acc)
  ELSE LET step == Callback(sub, acc, transforms[i]) IN
       IF step.thrown THEN step ELSE reduce(sub, transforms, i + 1, step.acc)

\* What a call of parseEvent ends with: a returned record, or an exception.
Returned(error, success, hasData, data) ==
  [kind |-> "return", error |-> error, success |-> success,
   hasData |-> hasData, data |-> data, exception |-> ""]
Thrown(exception) ==
  [kind |-> "throw", error |-> NullValue, success |-> FALSE,
   hasData |-> FALSE, data |-> <<>>, exception |-> exception]

\* Line 136: if (value.body.DeployProcessed.execution_result.Failure).
IsFailure_Never(v) == FALSE
IsFailure(v) == v.execution_result.tag = "Failure"

\* Line 177: {error: null, success: !!cep47Events.length, data: cep47Events}.
Assemble_AlwaysSuccess(cep47Events) ==
  Returned(NullValue, TRUE, TRUE, cep47Events)
Assemble(cep47Events) ==
  Returned(NullValue, Len(cep47Events) > 0, TRUE, cep47Events)

parseEvent(sub, v) ==
  IF IsFailure(v)
  THEN Returned(StringValue(v.execution_result.error_message), FALSE, FALSE, <<>>)
  ELSE LET cep47Events == reduce(sub, v.execution_result.transforms, 1, <<>>) IN
       IF cep47Events.thrown
       THEN Thrown(cep47Events.exception)
       ELSE Assemble(cep47Events.acc)

(***************************************************************************)
(* The inputs: subscriptions and deploy-processed payloads.                *)
(***************************************************************************)
SeedA == [prefix |-> "uref-", addr |-> <<10, 11>>, rights |-> "007"]
SeedB == [prefix |-> "uref-", addr |-> <<20, 21>>, rights |-> "007"]
BadPrefixSeed == [prefix |-> "hash-", addr |-> <<10, 11>>, rights |-> "007"]
NoRightsSeed == [prefix |-> "uref-", addr |-> <<10, 11>>, rights |-> ""]

EventsURefs == {SeedA, BadPrefixSeed, NoRightsSeed}
EventNameLists ==
  {names \in {<<>>, <<"cep47_mint_one">>,
              <<"cep47_mint_one", "cep47_transfer_token">>} :
     \A n \in 1..Len(names) : names[n] \in CEP47Events}
Subscriptions ==
  [contractPackageHash : {"pkg-1"}, eventNames : EventNameLists,
   eventsURef : EventsURefs]

\* A decoded map: each of the three fields absent or present, with one more
\* event-specific field.
Absent == "<absent>"
CLMapOf(id, hash, type) ==
  [f \in {"token_id"}
         \cup (IF id = Absent THEN {} ELSE {"event_id"})
         \cup (IF hash = Absent THEN {} ELSE {"contract_package_hash"})
         \cup (IF type = Absent THEN {} ELSE {"event_type"}) |->
     CASE f = "event_id" -> id
       [] f = "contract_package_hash" -> hash
       [] f = "event_type" -> type
       [] OTHER -> "1"]
NoMap == CLMapOf(Absent, Absent, Absent)

\* Hex byte strings, by what the decoder makes of them.
Undecodable == [decodes |-> "error", some |-> FALSE, inner |-> "none", map |-> NoMap]
OptionOfMap(m) == [decodes |-> "Option", some |-> TRUE, inner |-> "Map", map |-> m]
NonMapBytes ==
  {[decodes |-> d, some |-> FALSE, inner |-> "none", map |-> NoMap] :
     d \in {"error", "String", "List", "Option"}}
  \cup {[decodes |-> "Option", some |-> TRUE, inner |-> "String", map |-> NoMap]}

KeyA42 == getDictionaryKeyHash(SeedA, "42").key
KeyA7 == getDictionaryKeyHash(SeedA, "7").key
KeyB42 == getDictionaryKeyHash(SeedB, "42").key
HashKey == [head |-> "hash", body |-> blake2b(<<10, 11>>)]
Keys == {KeyA42, KeyA7, KeyB42, HashKey}

WriteCLValue(parsed, bytes) ==
  [tag |-> "WriteCLValue", parsed |-> parsed, bytes |-> bytes]

\* Two events a contract under SeedA writes, as the node reports them.
MintWrite ==
  [key |-> KeyA42,
   transform |-> WriteCLValue("null", OptionOfMap(CLMapOf("42", "pkg-1", "cep47_mint_one")))]
TransferWrite ==
  [key |-> KeyA7,
   transform |-> WriteCLValue("null", OptionOfMap(CLMapOf("7", "pkg-1", "cep47_transfer_token")))]
GarbageWrite == [MintWrite EXCEPT !.transform.bytes = Undecodable]

\* The records that differ from r in the key, the tag or the parsed field.
Variants(r) ==
  {[r EXCEPT !.key = k] : k \in Keys}
  \cup {[r EXCEPT !.transform.tag = "Identity"],
        [r EXCEPT !.transform.parsed = "parsed"]}

\* The byte strings that decode to a map: each of the three fields absent,
\* as in the mint event, or different.
MapBytes ==
  {OptionOfMap(CLMapOf(id, hash, type)) :
     id \in {Absent, "42", "7"}, hash \in {Absent, "pkg-1", "pkg-2"},
     type \in {Absent, "cep47_mint_one", "cep47_burn_one"}}
  \cup {OptionOfMap(CLMapOf("42", "pkg-1", "cep47_transfer_token"))}

TransformRecords ==
  Variants(MintWrite) \cup Variants(GarbageWrite) \cup Variants(TransferWrite)
  \cup {[MintWrite EXCEPT !.transform.bytes = b] : b \in NonMapBytes \cup MapBytes}

RECURSIVE SeqsUpTo(_, _)
SeqsUpTo(S, n) ==
  IF n = 0 THEN {<<>>}
  ELSE LET shorter == SeqsUpTo(S, n - 1) IN
       shorter \cup {Append(t, x) : t \in {u \in shorter : Len(u) = n - 1}, x \in S}

ExecutionResults ==
  [tag : {"Success"}, error_message : {""},
   transforms : SeqsUpTo(TransformRecords, MaxTransforms)]
  \cup [tag : {"Failure"}, error_message : {"Out of gas"},
        transforms : SeqsUpTo(TransformRecords, MaxTransforms)]
Payloads == [execution_result : ExecutionResults]

\* Before the call there is no outcome.
NotCalled ==
  [kind |-> "pending", error |-> NullValue, success |-> FALSE,
   hasData |-> FALSE, data |-> <<>>, exception |-> ""]

(***************************************************************************)
(* The state machine: a deploy-processed notification is handled by one    *)
(* call of parseEvent.                                                     *)
(***************************************************************************)
Init ==
  /\ subscription \in Subscriptions
  /\ value \in Payloads
  /\ pc = "notified"
  /\ result = NotCalled

ParseEvent ==
  /\ pc = "notified"
  /\ result' = parseEvent(subscription, value)
  /\ pc' = "parsed"
  /\ UNCHANGED <<subscription, value>>

Next == ParseEvent

Spec == Init /\ [][Next]_vars

(***************************************************************************)
(* Vocabulary of the properties.                                           *)
(***************************************************************************)
Parsed == pc = "parsed"
Succeeded == value.execution_result.tag = "Success"
TransformList == value.execution_result.transforms
CleanMiss == Returned(NullValue, FALSE, TRUE, <<>>)

WellFormedSeed(sub) ==
  sub.eventsURef.prefix = "uref-" /\ sub.eventsURef.rights \in AccessRights

\* The three candidate conditions, and the decoded map of a record.
CandidateShape(rec) ==
  /\ rec.key.head = "dictionary"
  /\ rec.transform.tag = "WriteCLValue"
  /\ rec.transform.parsed = "null"
DecodesToMap(rec) ==
  /\ rec.transform.bytes.decodes = "Option"
  /\ rec.transform.bytes.some
  /\ rec.transform.bytes.inner = "Map"
DecodedMap(rec) == rec.transform.bytes.map
HasAllFields(m) ==
  {"event_id", "contract_package_hash", "event_type"} \subseteq DOMAIN m

\* A record that reaches the key derivation.
ReachesDerivation(rec) ==
  CandidateShape(rec) /\ DecodesToMap(rec) /\ "event_id" \in DOMAIN DecodedMap(rec)

\* Every check but the one on the key.
PassesOtherChecks(rec, sub) ==
  /\ CandidateShape(rec)
  /\ DecodesToMap(rec)
  /\ HasAllFields(DecodedMap(rec))
  /\ DecodedMap(rec)["contract_package_hash"] = sub.contractPackageHash
  /\ \E n \in 1..Len(sub.eventNames) :
        sub.eventNames[n] = DecodedMap(rec)["event_type"]

KeyIsDerived(rec, sub) ==
  LET k == getDictionaryKeyHash(sub.eventsURef, DecodedMap(rec)["event_id"]) IN
  k.ok /\ rec.key = k.key

PassesAllChecks(rec, sub) == PassesOtherChecks(rec, sub) /\ KeyIsDerived(rec, sub)

EntryOf(rec) ==
  [name |-> DecodedMap(rec)["event_type"], clValue |-> DecodedMap(rec)]

RECURSIVE Filter(_, _)
Filter(seq, sub) ==
  IF seq = <<>> THEN <<>>
  ELSE (IF PassesAllChecks(Head(seq), sub) THEN <<Head(seq)>> ELSE <<>>)
       \o Filter(Tail(seq), sub)

ExpectedData(seq, sub) ==
  LET passing == Filter(seq, sub) IN
  [i \in 1..Len(passing) |-> EntryOf(passing[i])]

\* A candidate whose bytes do not decode, or decode to something that is no
\* Option of a map, or to a map lacking one of the three fields.
MalformedCandidate(rec) ==
  /\ CandidateShape(rec)
  /\ \/ ~DecodesToMap(rec)
     \/ ~HasAllFields(DecodedMap(rec))

WithTransforms(seq) ==
  [value EXCEPT !.execution_result.transforms = seq]

(***************************************************************************)
(* C1: Failure short-circuit.  Whenever the execution outcome is a Failure *)
(* with message m, parseEvent returns exactly {error: m, success: false},  *)
(* without a data field, whatever the subscription and the transform list  *)
(* are: no record is decoded and no key is derived, so nothing is thrown.  *)
(***************************************************************************)
C1_FailureShortCircuit ==
  (Parsed /\ ~Succeeded) =>
     result = [kind |-> "return",
               error |-> [isNull |-> FALSE,
                          str |-> value.execution_result.error_message],
               success |-> FALSE, hasData |-> FALSE, data |-> <<>>,
               exception |-> ""]

\* A failed deploy whose transform list holds an undecodable candidate and a
\* passing one, under a malformed seed reference.
C1_Witness ==
  /\ Parsed /\ ~Succeeded
  /\ value.execution_result.error_message = "Out of gas"
  /\ ~WellFormedSeed(subscription)
  /\ TransformList = <<GarbageWrite, MintWrite>>
  /\ result.kind = "return" /\ result.error.str = "Out of gas"

(***************************************************************************)
(* C2: Provenance check.  Every entry of the returned data comes from a    *)
(* record whose key equals getDictionaryKeyHash(eventsURef, event_id) for  *)
(* the event_id of its decoded map; and when the only candidate passes     *)
(* every other check but carries another dictionary key, the result is     *)
(* {error: null, success: false, data: []}.                                *)
(***************************************************************************)
C2_ProvenanceCheck ==
  (Parsed /\ Succeeded /\ result.kind = "return") =>
     /\ \A e \in 1..Len(result.data) :
           \E i \in 1..Len(TransformList) :
              /\ CandidateShape(TransformList[i])
              /\ DecodesToMap(TransformList[i])
              /\ DecodedMap(TransformList[i]) = result.data[e].clValue
              /\ KeyIsDerived(TransformList[i], subscription)
     /\ Len(result.data) <=
           Cardinality({i \in 1..Len(TransformList) :
                          /\ ReachesDerivation(TransformList[i])
                          /\ KeyIsDerived(TransformList[i], subscription)})
     /\ (\A i \in 1..Len(TransformList) :
           /\ \A j \in 1..Len(TransformList) :
                 CandidateShape(TransformList[j]) => j = i
           /\ PassesOtherChecks(TransformList[i], subscription)
           /\ ~KeyIsDerived(TransformList[i], subscription)
           => result = CleanMiss)

\* The mint event written under another seed's dictionary key, alone.
C2_Witness ==
  /\ Parsed /\ Succeeded
  /\ WellFormedSeed(subscription)
  /\ TransformList = <<[MintWrite EXCEPT !.key = KeyB42]>>
  /\ PassesOtherChecks(TransformList[1], subscription)
  /\ result = CleanMiss

(***************************************************************************)
(* C3: Malformed-candidate tolerance, as claimed.  With a well-formed seed *)
(* reference, a transform list holding a candidate whose bytes fail to     *)
(* decode, are no Option, or have an unexpected shape or a missing field   *)
(* does not make parseEvent fail: the record is skipped and every record   *)
(* that passes all checks still appears in data.                           *)
(***************************************************************************)
C3_MalformedCandidateTolerance ==
  (/\ Parsed /\ Succeeded
   /\ WellFormedSeed(subscription)
   /\ \E i \in 1..Len(TransformList) : MalformedCandidate(TransformList[i]))
  => /\ result.kind = "return"
     /\ result.data = ExpectedData(TransformList, subscription)

PreParsed(rec) ==
  rec.transform.tag = "WriteCLValue" /\ rec.transform.parsed # "null"

RECURSIVE WithoutPreParsed(_)
WithoutPreParsed(seq) ==
  IF seq = <<>> THEN <<>>
  ELSE (IF PreParsed(Head(seq)) THEN <<>> ELSE <<Head(seq)>>)
       \o WithoutPreParsed(Tail(seq))

C6_PreParsedIgnored ==
  (Parsed /\ Succeeded) =>
     /\ result = parseEvent(subscription, WithTransforms(WithoutPreParsed(TransformList)))
     /\ ((\A i \in 1..Len(TransformList) : PreParsed(TransformList[i]))
           => result = CleanMiss)
     /\ Len(result.data) <=
           Cardinality({i \in 1..Len(TransformList) : ~PreParsed(TransformList[i])})

\* The mint event under its derived key, already parsed by the node, and an
\* undecodable write that is already parsed too.
C6_Witness ==
  /\ Parsed /\ Succeeded
  /\ WellFormedSeed(subscription)
  /\ subscription.eventNames # <<>>
  /\ TransformList =
       <<[MintWrite EXCEPT !.transform.parsed = "parsed"],
         [GarbageWrite EXCEPT !.transform.parsed = "parsed"]>>
  /\ result = CleanMiss

(***************************************************************************)
(* C7: Result assembly.  A record returned for a successful payload has    *)
(* error = null and a data field, and success is true exactly when data is *)
(* not empty; when no key starts with "dictionary" parseEvent returns      *)
(* {error: null, success: false, data: []}.                                *)
(***************************************************************************)
C7_ResultAssembly ==
  (Parsed /\ Succeeded) =>
     /\ result.kind = "return" =>
           /\ result.error = [isNull |-> TRUE, str |-> ""]
           /\ result.hasData
           /\ result.success <=> (Len(result.data) > 0)
     /\ (\A i \in 1..Len(TransformList) : TransformList[i].key.head # "dictionary")
           => result = CleanMiss

\* No dictionary key in a non-empty list: a clean miss.
C7_Witness ==
  /\ Parsed /\ Succeeded
  /\ Len(TransformList) = MaxTransforms
  /\ \A i \in 1..Len(TransformList) : TransformList[i].key.head # "dictionary"
  /\ \E i \in 1..Len(TransformList) :
        TransformList[i] = [GarbageWrite EXCEPT !.key = HashKey]
  /\ result = CleanMiss

(***************************************************************************)
(* C8: InvalidReferenceFormat propagation.  getDictionaryKeyHash fails on  *)
(* a seed reference that is no formatted URef; and when parseEvent derives *)
(* the key of a candidate under such a reference it ends with an           *)
(* exception, never with a returned record: the failure of the derivation  *)
(* itself, unless an earlier record already ended the call.                *)
(***************************************************************************)
ThrowsBefore(seq, i) ==
  \E j \in 1..(i - 1) :
     /\ CandidateShape(seq[j])
     /\ seq[j].transform.bytes.decodes \in {"error", "List"}

C8_InvalidReferencePropagation ==
  /\ ~WellFormedSeed(subscription) =>
        \A id \in {"42", "7"} :
           ~getDictionaryKeyHash(subscription.eventsURef, id).ok
  /\ (Parsed /\ Succeeded /\ ~WellFormedSeed(subscription)) =>
        \A i \in 1..Len(TransformList) :
           ReachesDerivation(TransformList[i]) =>
              /\ result.kind = "throw"
              /\ ~ThrowsBefore(TransformList, i) =>
                    result.exception = "InvalidReferenceFormat"

\* A subscription with a malformed reference and a list whose second record
\* is the mint event.
C8_Witness ==
  /\ Parsed /\ Succeeded
  /\ ~WellFormedSeed(subscription)
  /\ Len(TransformList) = 2
  /\ TransformList[2] = MintWrite
  /\ result.kind = "throw"
  /\ result.exception = "InvalidReferenceFormat"

(***************************************************************************)
(* C10: Per-record independence.  For every way of cutting the transform   *)
(* list into T1 ++ T2 such that parseEvent completes on T1 and on T2, it   *)
(* completes on the whole list with data(T1) ++ data(T2); and data never   *)
(* has more entries than the list has records.                             *)
(***************************************************************************)
C10_PerRecordIndependence ==
  (Parsed /\ Succeeded) =>
     /\ \A k \in 0..Len(TransformList) :
           LET r1 == parseEvent(subscription,
                       WithTransforms(SubSeq(TransformList, 1, k)))
               r2 == parseEvent(subscription,
                       WithTransforms(SubSeq(TransformList, k + 1, Len(TransformList))))
           IN (r1.kind = "return" /\ r2.kind = "return") =>
                 /\ result.kind = "return"
                 /\ result.data = r1.data \o r2.data
     /\ Len(result.data) <= Len(TransformList)

\* The same mint record twice: two entries.
C10_Witness ==
  /\ Parsed /\ Succeeded
  /\ Len(TransformList) = 2
  /\ TransformList[1] = MintWrite /\ TransformList[2] = MintWrite
  /\ result.kind = "return"
  /\ Len(result.data) = 2

====
